---- MODULE Spec2Model ----
(***************************************************************************)
(* Model of convert_series.py: a script that reads a text file line by     *)
(* line ("Title — Year" or "Title"), builds a list of records              *)
(* {id, title, year, rating} and, after the file is closed, dumps the list *)
(* as JSON on standard output.                                             *)
(*                                                                         *)
(* Text is modelled as a sequence of one-character strings.  The em-dash   *)
(* U+2014 is written "EM" (one element of a sequence = one character).     *)
(* A line yielded by the file iterator keeps its terminator "\n"; only the *)
(* last line of a file may lack it.                                        *)
(***************************************************************************)
EXTENDS Integers, Sequences, FiniteSets, TLC

VARIABLES
    pc,       \* position of the script: "open", "loop", "dump", "done", "failed"
    lines,    \* the lines the file iterator yields, in order (the input)
    i,        \* the enumerate(f, start=1) counter: number of lines yielded so far
    items,    \* the list `items`
    stdout,   \* the text written to sys.stdout so far
    error     \* the exception that ended the run, "none" while there is none

vars == <<pc, lines, i, items, stdout, error>>

----------------------------------------------------------------------------
(* Bounds of the model.                                                    *)

MaxLen == 4          \* longest text of the exhaustive one-line files
MaxTitle == 2        \* longest text before the separator of a generated line
MaxYear == 3         \* longest text after the separator of a generated line
MaxPart == 1         \* longest of the two later segments of a two-separator line
MaxLines == 3        \* most lines of a file made of the sample lines
MaxLongLines == 11   \* most lines of a file made of one blank and one title line

----------------------------------------------------------------------------
(* Characters.                                                             *)

EmDash == "EM"

\* variant of Sep: the em-dash alone
SepNoSpaces == <<EmDash>>

Sep == <<" ", EmDash, " ">>

Alphabet == {" ", "\t", EmDash, "A", "1", "2", "-", "_"}

DigitChars == <<"0", "1", "2", "3", "4", "5", "6", "7", "8", "9">>

IsDigit(c) == \E k \in 1..10 : DigitChars[k] = c

DigitVal(c) == (CHOOSE k \in 1..10 : DigitChars[k] = c) - 1

\* characters str.strip() removes (those of them the model's texts use)
IsSpace(c) == c \in {" ", "\t", "\n"}

----------------------------------------------------------------------------
(* Library functions the script calls.                                     *)

RECURSIVE LStrip(_)
LStrip(s) ==
    IF s = <<>> THEN s
    ELSE IF IsSpace(Head(s)) THEN LStrip(Tail(s))
    ELSE s

RECURSIVE RStrip(_)
RStrip(s) ==
    IF s = <<>> THEN s
    ELSE IF IsSpace(s[Len(s)]) THEN RStrip(SubSeq(s, 1, Len(s) - 1))
    ELSE s

\* str.strip()
Strip(s) == RStrip(LStrip(s))

\* str.find(sub, start): lowest index >= start where sub occurs, 0 when none
RECURSIVE Find(_, _, _)
Find(s, sub, start) ==
    IF start + Len(sub) - 1 > Len(s) THEN 0
    ELSE IF SubSeq(s, start, start + Len(sub) - 1) = sub THEN start
    ELSE Find(s, sub, start + 1)

\* `sub in s`
Contains(s, sub) == Find(s, sub, 1) # 0

\* str.rfind(sub): highest index where sub occurs, 0 when none
RECURSIVE RFind(_, _, _)
RFind(s, sub, start) ==
    IF start < 1 THEN 0
    ELSE IF SubSeq(s, start, start + Len(sub) - 1) = sub THEN start
    ELSE RFind(s, sub, start - 1)

\* variant of Split1: s.rsplit(sub, 1), the split at the last occurrence
RSplit1(s, sub) ==
    LET p == RFind(s, sub, Len(s) - Len(sub) + 1)
    IN  IF p = 0 THEN <<s>>
        ELSE <<SubSeq(s, 1, p - 1), SubSeq(s, p + Len(sub), Len(s))>>

\* s.split(sub, 1): at most one split, at the first occurrence
Split1(s, sub) ==
    LET p == Find(s, sub, 1)
    IN  IF p = 0 THEN <<s>>
        ELSE <<SubSeq(s, 1, p - 1), SubSeq(s, p + Len(sub), Len(s))>>

\* The digit part of an int() literal scanned left to right: digits, with a
\* single underscore allowed between two digits.  prev is "start", "digit"
\* or "underscore"; the result is the value, or -1 for a malformed literal.
RECURSIVE ScanDigits(_, _, _)
ScanDigits(s, acc, prev) ==
    IF s = <<>> THEN (IF prev = "digit" THEN acc ELSE -1)
    ELSE IF IsDigit(Head(s)) THEN ScanDigits(Tail(s), acc * 10 + DigitVal(Head(s)), "digit")
    ELSE IF Head(s) = "_" /\ prev = "digit" THEN ScanDigits(Tail(s), acc, "underscore")
    ELSE -1

\* variant of PyInt: the sign is accepted and dropped
PyIntUnsigned(s) ==
    LET t == Strip(s)
        signed == t # <<>> /\ Head(t) \in {"+", "-"}
        body == IF signed THEN Tail(t) ELSE t
        v == ScanDigits(body, 0, "start")
    IN  IF v = -1 THEN [ok |-> FALSE, val |-> 0]
        ELSE [ok |-> TRUE, val |-> v]

\* int(s) for a str: surrounding whitespace is skipped, then an optional
\* sign, then the digits.  ok = FALSE stands for ValueError.  The texts of
\* the model hold ASCII digits only and stay far below int()'s limit on the
\* number of digits.
PyInt(s) ==
    LET t == Strip(s)
        signed == t # <<>> /\ Head(t) \in {"+", "-"}
        body == IF signed THEN Tail(t) ELSE t
        v == ScanDigits(body, 0, "start")
    IN  IF v = -1 THEN [ok |-> FALSE, val |-> 0]
        ELSE [ok |-> TRUE, val |-> IF signed /\ Head(t) = "-" THEN 0 - v ELSE v]

\* str(n) for an int n >= 0
RECURSIVE StrNat(_)
StrNat(n) ==
    IF n < 10 THEN <<DigitChars[n + 1]>>
    ELSE StrNat(n \div 10) \o <<DigitChars[(n % 10) + 1]>>

\* str(n)
Str(n) == IF n < 0 THEN <<"-">> \o StrNat(0 - n) ELSE StrNat(n)

----------------------------------------------------------------------------
(* The loop body.  year is <<>> for None and <<n>> for the int n.          *)

None == <<>>

\* the try/except around int(year_str)
YearOf(year_str) ==
    LET r == PyInt(year_str)
    IN  IF r.ok THEN <<r.val>> ELSE None

\* title of the record built from the stripped line
TitleOf(line) ==
    IF Contains(line, Sep) THEN Strip(Split1(line, Sep)[1]) ELSE line

\* year of the record built from the stripped line
YearOfLine(line) ==
    IF Contains(line, Sep) THEN YearOf(Strip(Split1(line, Sep)[2])) ELSE None

\* variant of MakeRecord: rating takes the line number
MakeRecordRatingIsLineNo(n, line) ==
    [id |-> Str(n), title |-> TitleOf(line), year |-> YearOfLine(line), rating |-> n]

\* the dict appended for line number n whose stripped text is line
MakeRecord(n, line) ==
    [id |-> Str(n), title |-> TitleOf(line), year |-> YearOfLine(line), rating |-> 0]

----------------------------------------------------------------------------
(* json.dump(items, sys.stdout, ensure_ascii=False, indent=2), as the      *)
(* sequence of tokens written; the layout whitespace of indent=2 is left   *)
(* out.                                                                    *)

RECURSIVE JsonChars(_)
JsonChars(s) ==
    IF s = <<>> THEN <<>>
    ELSE (IF Head(s) = "\t" THEN <<"\\", "t">>
          ELSE IF Head(s) = "\n" THEN <<"\\", "n">>
          ELSE <<Head(s)>>) \o JsonChars(Tail(s))

JsonString(s) == <<"\"">> \o JsonChars(s) \o <<"\"">>

JsonRecord(r) ==
    <<"{", "id", ":">> \o JsonString(r.id)
    \o <<",", "title", ":">> \o JsonString(r.title)
    \o <<",", "year", ":">> \o (IF r.year = None THEN <<"null">> ELSE Str(r.year[1]))
    \o <<",", "rating", ":">> \o Str(r.rating) \o <<"}">>

RECURSIVE JsonRecords(_)
JsonRecords(rs) ==
    IF rs = <<>> THEN <<>>
    ELSE IF Len(rs) = 1 THEN JsonRecord(rs[1])
    ELSE JsonRecord(Head(rs)) \o <<",">> \o JsonRecords(Tail(rs))

JsonDump(rs) == <<"[">> \o JsonRecords(rs) \o <<"]">>

----------------------------------------------------------------------------
(* Inputs.                                                                 *)

Strings(alphabet, n) == UNION {[1..k -> alphabet] : k \in 0..n}

NL == <<"\n">>

\* sample lines for files of several lines
FileLines ==
    { NL,
      <<" ", "\t">> \o NL,
      <<"A">> \o NL,
      <<" ", "B", " ">> \o NL,
      <<"C", " ", EmDash, " ", "1", "2">> \o NL,
      <<"D", " ", EmDash, " ", "A">> \o NL,
      <<"E", EmDash, "1">> \o NL,
      <<"F", " ", EmDash, " ", "A", " ", EmDash, " ", "1">> \o NL }

\* the lines of a long file: blank or a bare title
LongLines == { NL, <<"A">> \o NL }

Files(lineSet, n) == UNION {[1..k -> lineSet] : k \in 0..n}

\* the same file with no terminator after its last line (when that line has text)
Unterminated(f) ==
    IF f # <<>> /\ Len(f[Len(f)]) > 1
    THEN [f EXCEPT ![Len(f)] = SubSeq(f[Len(f)], 1, Len(f[Len(f)]) - 1)]
    ELSE f

TitleAlphabet == {" ", EmDash, "A"}

PartAlphabet == {" ", EmDash, "A", "1"}

YearAlphabet == {" ", "A", "1", "2", "-", "+", "_"}

\* the texts of one-line files: every text up to MaxLen; a title text, the
\* separator and a year text; a title text and two more segments around two
\* separators
OneLineTexts ==
    Strings(Alphabet, MaxLen)
    \cup {p \o Sep \o q : p \in Strings(TitleAlphabet, MaxTitle), q \in Strings(YearAlphabet, MaxYear)}
    \cup {p \o Sep \o q \o Sep \o r : p \in Strings(TitleAlphabet, MaxTitle),
                                      q \in Strings(PartAlphabet, MaxPart),
                                      r \in Strings(PartAlphabet, MaxPart)}

----------------------------------------------------------------------------
(* The script.                                                             *)

InitCommon ==
    /\ pc = "open"
    /\ i = 0
    /\ items = <<>>
    /\ stdout = <<>>
    /\ error = "none"

Init ==
    /\ InitCommon
    /\ \E f \in Files(FileLines, MaxLines) \cup Files(LongLines, MaxLongLines) :
          lines \in {f, Unterminated(f)}

InitLine ==
    /\ InitCommon
    /\ \E s \in OneLineTexts : lines \in {<<s \o NL>>} \cup (IF s = <<>> THEN {} ELSE {<<s>>})

\* open(path, "r", encoding="utf-8") succeeds
Open ==
    /\ pc = "open"
    /\ pc' = "loop"
    /\ UNCHANGED <<lines, i, items, stdout, error>>

\* open() raises OSError (missing file, permission)
OpenFail ==
    /\ pc = "open"
    /\ pc' = "failed"
    /\ error' = "OSError"
    /\ UNCHANGED <<lines, i, items, stdout>>

\* the iterator raises while reading the next line (UnicodeDecodeError, OSError)
ReadFail ==
    /\ pc = "loop"
    /\ i < Len(lines)
    /\ pc' = "failed"
    /\ error' = "ReadError"
    /\ UNCHANGED <<lines, i, items, stdout>>

\* variant of SkipBlank: the `continue` is missing, the blank line is appended
SkipBlankAppends ==
    /\ pc = "loop"
    /\ i < Len(lines)
    /\ Strip(lines[i + 1]) = <<>>
    /\ i' = i + 1
    /\ items' = Append(items, MakeRecord(i + 1, Strip(lines[i + 1])))
    /\ UNCHANGED <<pc, lines, stdout, error>>

\* a line that is empty after strip(): continue
SkipBlank ==
    /\ pc = "loop"
    /\ i < Len(lines)
    /\ Strip(lines[i + 1]) = <<>>
    /\ i' = i + 1
    /\ UNCHANGED <<pc, lines, items, stdout, error>>

\* variant of AppendRecord: the id counts the records, not the lines
AppendRecordDenseIds ==
    /\ pc = "loop"
    /\ i < Len(lines)
    /\ Strip(lines[i + 1]) # <<>>
    /\ i' = i + 1
    /\ items' = Append(items, MakeRecord(Len(items) + 1, Strip(lines[i + 1])))
    /\ UNCHANGED <<pc, lines, stdout, error>>

\* variant of AppendRecord: no except clause, the ValueError of int() ends the run
AppendRecordNoExcept ==
    /\ pc = "loop"
    /\ i < Len(lines)
    /\ Strip(lines[i + 1]) # <<>>
    /\ i' = i + 1
    /\ LET line == Strip(lines[i + 1])
       IN  IF Contains(line, Sep) /\ ~PyInt(Strip(Split1(line, Sep)[2])).ok
           THEN /\ pc' = "failed"
                /\ error' = "ValueError"
                /\ UNCHANGED <<lines, items, stdout>>
           ELSE /\ items' = Append(items, MakeRecord(i + 1, line))
                /\ UNCHANGED <<pc, lines, stdout, error>>

\* variant of AppendRecord: each record is written out as soon as it is built
AppendRecordStreaming ==
    /\ pc = "loop"
    /\ i < Len(lines)
    /\ Strip(lines[i + 1]) # <<>>
    /\ i' = i + 1
    /\ items' = Append(items, MakeRecord(i + 1, Strip(lines[i + 1])))
    /\ stdout' = stdout \o JsonRecord(MakeRecord(i + 1, Strip(lines[i + 1])))
    /\ UNCHANGED <<pc, lines, error>>

\* variant of AppendRecord: the separator is searched in the line as read,
\* the first strip() is missing
AppendRecordRawLine ==
    /\ pc = "loop"
    /\ i < Len(lines)
    /\ Strip(lines[i + 1]) # <<>>
    /\ i' = i + 1
    /\ items' = Append(items, MakeRecord(i + 1, lines[i + 1]))
    /\ UNCHANGED <<pc, lines, stdout, error>>

\* any other line: build the record and append it
AppendRecord ==
    /\ pc = "loop"
    /\ i < Len(lines)
    /\ Strip(lines[i + 1]) # <<>>
    /\ i' = i + 1
    /\ items' = Append(items, MakeRecord(i + 1, Strip(lines[i + 1])))
    /\ UNCHANGED <<pc, lines, stdout, error>>

\* the iterator is exhausted; the with block closes the file
EndOfFile ==
    /\ pc = "loop"
    /\ i = Len(lines)
    /\ pc' = "dump"
    /\ UNCHANGED <<lines, i, items, stdout, error>>

RECURSIVE Reverse(_)
Reverse(s) == IF s = <<>> THEN <<>> ELSE Append(Reverse(Tail(s)), Head(s))

\* variant of Dump: the list is reversed in place before it is dumped
DumpReversed ==
    /\ pc = "dump"
    /\ items' = Reverse(items)
    /\ stdout' = stdout \o JsonDump(items')
    /\ pc' = "done"
    /\ UNCHANGED <<lines, i, error>>

\* json.dump(items, sys.stdout, ...), then the script ends
Dump ==
    /\ pc = "dump"
    /\ stdout' = stdout \o JsonDump(items)
    /\ pc' = "done"
    /\ UNCHANGED <<lines, i, items, error>>

Next ==
    \/ Open
    \/ OpenFail
    \/ ReadFail
    \/ SkipBlank
    \/ AppendRecord
    \/ EndOfFile
    \/ Dump

Spec == Init /\ [][Next]_vars

SpecLine == InitLine /\ [][Next]_vars

----------------------------------------------------------------------------
(* Vocabulary of the properties, stated on the text of the lines and not   *)
(* through the functions of the script.                                    *)

Whitespace == {" ", "\t", "\n"}

DecimalDigits == {"0", "1", "2", "3", "4", "5", "6", "7", "8", "9"}

Decimal ==
    ("0" :> 0) @@ ("1" :> 1) @@ ("2" :> 2) @@ ("3" :> 3) @@ ("4" :> 4) @@
    ("5" :> 5) @@ ("6" :> 6) @@ ("7" :> 7) @@ ("8" :> 8) @@ ("9" :> 9)

Least(S) == CHOOSE x \in S : \A y \in S : x <= y

Greatest(S) == CHOOSE x \in S : \A y \in S : y <= x

\* s without its leading and trailing whitespace
Trimmed(s) ==
    LET inked == {k \in 1..Len(s) : s[k] \notin Whitespace}
    IN  IF inked = {} THEN <<>> ELSE SubSeq(s, Least(inked), Greatest(inked))

\* space, em-dash, space at positions p, p+1, p+2 of s
SepAt(s, p) == p + 2 <= Len(s) /\ s[p] = " " /\ s[p + 1] = EmDash /\ s[p + 2] = " "

SepPlaces(s) == {p \in 1..Len(s) : SepAt(s, p)}

HasSep(s) == SepPlaces(s) # {}

TextBefore(s) == Trimmed(SubSeq(s, 1, Least(SepPlaces(s)) - 1))

TextAfter(s) == Trimmed(SubSeq(s, Least(SepPlaces(s)) + 3, Len(s)))

\* the value of a sequence of decimal digits
RECURSIVE NumberOf(_)
NumberOf(d) ==
    IF d = <<>> THEN 0
    ELSE 10 * NumberOf(SubSeq(d, 1, Len(d) - 1)) + Decimal[d[Len(d)]]

\* d is the decimal numeral of the natural number n
IsDecimalOf(d, n) ==
    /\ d # <<>>
    /\ \A k \in 1..Len(d) : d[k] \in DecimalDigits
    /\ Len(d) > 1 => d[1] # "0"
    /\ NumberOf(d) = n

Unsigned(t) == IF t # <<>> /\ t[1] \in {"+", "-"} THEN Tail(t) ELSE t

\* an optional sign and decimal digits, nothing else
IsPlainInteger(t) ==
    /\ Unsigned(t) # <<>>
    /\ \A k \in 1..Len(Unsigned(t)) : Unsigned(t)[k] \in DecimalDigits

\* an optional sign and decimal digits, where a single underscore may stand
\* between two digits
IsIntLiteral(t) ==
    LET b == Unsigned(t)
    IN  /\ b # <<>>
        /\ \A k \in 1..Len(b) :
              \/ b[k] \in DecimalDigits
              \/ /\ b[k] = "_"
                 /\ 1 < k /\ k < Len(b)
                 /\ b[k - 1] \in DecimalDigits
                 /\ b[k + 1] \in DecimalDigits

\* the integer such a text denotes
IntegerValue(t) ==
    LET n == NumberOf(SelectSeq(t, LAMBDA c : c \in DecimalDigits))
    IN  IF t[1] = "-" THEN 0 - n ELSE n

NonBlank(k) == Trimmed(lines[k]) # <<>>

\* the non-blank lines among the first n
NonBlankUpTo(n) == {k \in 1..n : NonBlank(k)}

\* line k is the Rank(k)-th non-blank line
Rank(k) == Cardinality(NonBlankUpTo(k))

ExpectedTitle(s) == IF HasSep(s) THEN TextBefore(s) ELSE s

----------------------------------------------------------------------------
(* Properties.                                                             *)

\* C1: after any number of lines, there is exactly one record per non-blank
\* line read and none for a blank one, and the records stand in the order of
\* their lines (the n-th record carries the title of the n-th non-blank
\* line); the loop ends only when every line has been read.
C1_OneRecordPerNonBlankLine ==
    /\ Len(items) = Cardinality(NonBlankUpTo(i))
    /\ \A k \in NonBlankUpTo(i) :
          /\ Rank(k) \in 1..Len(items)
          /\ items[Rank(k)].title = ExpectedTitle(Trimmed(lines[k]))
    /\ pc \in {"dump", "done"} => i = Len(lines)

C1_Witness ==
    /\ pc = "done"
    /\ Len(lines) = 3
    /\ Len(items) = 2
    /\ ~NonBlank(2)
    /\ items[1].title # items[2].title

\* C2: after any prefix of the input, the id of each record is the decimal
\* numeral of the 1-based position of its line among all lines, blank ones
\* counted, and the ids are pairwise different and strictly increasing in
\* value.
C2_IdsAreLineNumbers ==
    /\ \A k \in NonBlankUpTo(i) :
          /\ Rank(k) \in 1..Len(items)
          /\ IsDecimalOf(items[Rank(k)].id, k)
    /\ \A a \in 1..Len(items) : \A b \in 1..Len(items) :
          /\ a < b => NumberOf(items[a].id) < NumberOf(items[b].id)
          /\ a # b => items[a].id # items[b].id

C2_Witness ==
    /\ pc = "loop"
    /\ \E j \in 1..Len(items) :
          /\ Len(items[j].id) = 2
          /\ NumberOf(items[j].id) > j
          /\ NumberOf(items[j].id) = i

\* C6: a year text that int() rejects never ends the run: the line's record
\* is there with its title and year None, the records of the lines before it
\* are kept, and every non-blank line read after it has its record too; the
\* run fails only on an open or read error.
BadYearLine(k) ==
    /\ NonBlank(k)
    /\ HasSep(Trimmed(lines[k]))
    /\ ~IsIntLiteral(TextAfter(Trimmed(lines[k])))

C6_BadYearIsRecovered ==
    /\ error \in {"none", "OSError", "ReadError"}
    /\ pc \in {"dump", "done"} => i = Len(lines)
    /\ \A k \in 1..i : BadYearLine(k) =>
          /\ Rank(k) \in 1..Len(items)
          /\ items[Rank(k)].year = None
          /\ items[Rank(k)].title = TextBefore(Trimmed(lines[k]))
          /\ \A m \in NonBlankUpTo(i) :
                Rank(m) \in 1..Len(items) /\ IsDecimalOf(items[Rank(m)].id, m)

C6_Witness ==
    /\ pc = "done"
    /\ Len(lines) = 3
    /\ NonBlank(1) /\ BadYearLine(2) /\ NonBlank(3)
    /\ Len(items) = 3
    /\ items[3].year # None

\* C7: a run that fails (open error, or a read error at any line) has written
\* nothing to standard output, and anything is written only once every line
\* has been read without error.
C7_NoOutputUnlessAllLinesRead ==
    /\ pc = "failed" => stdout = <<>>
    /\ stdout # <<>> => pc = "done" /\ i = Len(lines) /\ error = "none"
    /\ pc = "done" => stdout # <<>>

C7_Witness ==
    /\ pc = "failed"
    /\ error = "ReadError"
    /\ Len(items) >= 2
    /\ stdout = <<>>

\* C8: every record of the list has rating 0.
C8_RatingIsZero == \A j \in 1..Len(items) : items[j].rating = 0

C8_Witness ==
    /\ Len(items) = 3
    /\ items[1].year # None
    /\ items[2].year = None
    /\ items[3].id = <<"3">>

\* C9: a step leaves the list unchanged or appends one record at its end;
\* reading a blank line leaves it unchanged, reading any other line appends
\* exactly one record; the dump leaves it unchanged and writes that list.
C9_ItemsAppendOnly ==
    [][ /\ \/ items' = items
           \/ Len(items') = Len(items) + 1 /\ SubSeq(items', 1, Len(items)) = items
        /\ (i' # i /\ ~NonBlank(i')) => items' = items
        /\ (i' # i /\ NonBlank(i')) => Len(items') = Len(items) + 1
        /\ pc' = "done" => items' = items /\ stdout' = JsonDump(items)
      ]_vars

C9_Witness ==
    /\ pc = "done"
    /\ Len(items) = 2
    /\ Len(lines) = 3
    /\ ~NonBlank(1)
    /\ stdout = JsonDump(items)

\* C3 as stated: the year of a record is an integer exactly when the stripped
\* line has the separator and the stripped text after the first one is an
\* optional sign and decimal digits with no other character; the year is then
\* that integer.
C3_YearIffPlainInteger ==
    \A k \in NonBlankUpTo(i) :
        /\ Rank(k) \in 1..Len(items)
        /\ LET s == Trimmed(lines[k])
               r == items[Rank(k)]
           IN  /\ (r.year # None) <=> (HasSep(s) /\ IsPlainInteger(TextAfter(s)))
               /\ r.year # None => r.year = <<IntegerValue(TextAfter(s))>>

\* C3, amended: the year of a record is an integer exactly when the stripped
\* line has the separator and the stripped text after the first one is an
\* optional sign and decimal digits in which single underscores may stand
\* between digits; the year is then the integer the sign and the digits
\* denote; in every other case it is None.
C3_YearIffIntLiteral ==
    \A k \in NonBlankUpTo(i) :
        /\ Rank(k) \in 1..Len(items)
        /\ LET s == Trimmed(lines[k])
               r == items[Rank(k)]
           IN  /\ (r.year # None) <=> (HasSep(s) /\ IsIntLiteral(TextAfter(s)))
               /\ r.year # None => r.year = <<IntegerValue(TextAfter(s))>>

C3_Witness ==
    /\ pc = "done"
    /\ Len(items) = 1
    /\ items[1].year = <<12>>
    /\ \E k \in 1..Len(lines[1]) : lines[1][k] = "_"

\* C4: when the stripped line has the separator at more than one place, the
\* title is the stripped text before the first one and the year is None,
\* the text after the first one keeping the later separator.
C4_SplitAtFirstSeparator ==
    \A k \in NonBlankUpTo(i) :
        /\ Rank(k) \in 1..Len(items)
        /\ LET s == Trimmed(lines[k])
               r == items[Rank(k)]
           IN  Cardinality(SepPlaces(s)) > 1 =>
                  /\ r.title = TextBefore(s)
                  /\ r.year = None

C4_Witness ==
    /\ pc = "done"
    /\ lines = << <<"A", " ", EmDash, " ", "A", " ", EmDash, " ", "1", "\n">> >>
    /\ Len(items) = 1
    /\ items[1].title = <<"A">>
    /\ items[1].year = None

\* C5: for a non-blank line whose stripped text has no separator, the title
\* is the whole stripped text and the year is None, also when the text has
\* an em-dash without a space on both sides.
C5_NoSeparatorWholeLine ==
    \A k \in NonBlankUpTo(i) :
        /\ Rank(k) \in 1..Len(items)
        /\ LET s == Trimmed(lines[k])
               r == items[Rank(k)]
           IN  ~HasSep(s) => r.title = s /\ r.year = None

C5_Witness ==
    /\ pc = "done"
    /\ Len(items) = 1
    /\ ~HasSep(Trimmed(lines[1]))
    /\ items[1].title = <<"A", EmDash, " ", "1">>
    /\ items[1].year = None

\* C10: every record has a title that is not empty, neither starts nor ends
\* with whitespace and does not contain the separator; in a stripped line
\* the separator never stands at position 1.
C10_TitleIsClean ==
    /\ \A j \in 1..Len(items) :
          LET t == items[j].title
          IN  /\ t # <<>>
              /\ t[1] \notin Whitespace
              /\ t[Len(t)] \notin Whitespace
              /\ ~HasSep(t)
    /\ \A k \in NonBlankUpTo(i) : ~SepAt(Trimmed(lines[k]), 1)

C10_Witness ==
    /\ pc = "done"
    /\ lines = << <<" ", EmDash, " ", "1", "\n">> >>
    /\ Len(items) = 1
    /\ items[1].title = <<EmDash, " ", "1">>

====
